---- MODULE Spec2Model ----
(***************************************************************************)
(* Analysis pipeline of the stock metadata tagger: the retry policy        *)
(* (withRetry), the request step of the two protocol adapters              *)
(* (makeRequest), and the batch orchestrator (POST /api/analyze and        *)
(* processImagesAsync) with the images table it drives.                    *)
(*                                                                         *)
(* Two specifications share the variables:                                 *)
(*   Spec       the orchestrator: batches are submitted, their pending     *)
(*              rows are inserted and one worker per batch walks its       *)
(*              imageRecords;                                              *)
(*   RetrySpec  one call of withRetry, stepped attempt by attempt, around  *)
(*              a generic operation or an adapter's makeRequest.           *)
(***************************************************************************)
EXTENDS Integers, Sequences, FiniteSets, TLC

VARIABLES cfg, nextId, batch, db, cause, retry, op, opLog, returned, pr, vm, fac,
          cancel, hl, sib

vars ==
    <<cfg, nextId, batch, db, cause, retry, op, opLog, returned, pr, vm, fac,
      cancel, hl, sib>>

pipelineVars == <<cfg, nextId, batch, db, cause, returned>>

harnessVars == <<retry, op, opLog, cancel>>

\* the variables of the specifications of the single functions: pr for
\* processResult, vm for validateMetadata, fac for the endpoint factory, hl
\* for the adapters' health(), sib for one batch run with and without the
\* transient failures of one image
unitVars == <<pr, vm, fac, hl, sib>>

\* no function under study has been called
UnitIdle ==
    /\ pr = [step |-> "idle"]
    /\ vm = [step |-> "idle"]
    /\ fac = [step |-> "idle"]
    /\ hl = [step |-> "idle"]
    /\ sib = [step |-> "idle"]

(***************************************************************************)
(* Bounds                                                                  *)
(***************************************************************************)
\* total number of files accepted over all submissions
MaxImages == 2

\* number of POST /api/analyze requests that may be in progress together
MaxBatches == 2

\* largest maxRetries argument handed to withRetry by the generic caller
MaxRetryArg == 3

\* number of distinct keywords in the long keyword list given to processResult
LongListDistinct == 27

\* most adapter accesses, and most resets, in one process
MaxAccesses == 3

\* number of images of the batch that is run with and without the transient
\* failures of one of its images
SibImages == 3

(***************************************************************************)
(* Program constants                                                       *)
(***************************************************************************)
\* withRetry(fn, maxRetries = 2, baseDelayMs = 1000)
DefaultBaseDelayMs == 1000

\* parseInt(process.env.REQUEST_RETRIES || '2')
DefaultRetries == 2

\* IEEE NaN, the result of parseInt on a non-numeric string.  It is an
\* integer outside every range used here and is only read through the Js*
\* comparison operators below.
NaN == -1000000

(***************************************************************************)
(* JavaScript values.  Every value has the same three fields: t is the     *)
(* type tag, msg the message of an Error (or the text of a primitive) and  *)
(* oid the object identity (0 for primitives, which have none).            *)
(***************************************************************************)
Undefined == [t |-> "undefined", msg |-> "", oid |-> 0]

None == [t |-> "none", msg |-> "", oid |-> 0]

JsStr(s) == [t |-> "string", msg |-> s, oid |-> 0]

NewError(m, o) == [t |-> "Error", msg |-> m, oid |-> o]

Result(kind) == [t |-> "result", msg |-> kind, oid |-> 0]

\* error instanceof Error
IsError(v) == v.t = "Error"

\* String(v)
String(v) ==
    CASE v.t = "undefined" -> "undefined"
      [] v.t = "Error" -> "Error: " \o v.msg
      [] OTHER -> v.msg

\* attempt <= maxRetries  (false whenever an operand is NaN)
JsLeq(a, b) == a # NaN /\ b # NaN /\ a <= b

\* attempt === maxRetries  (false whenever an operand is NaN)
JsEq(a, b) == a # NaN /\ b # NaN /\ a = b

RECURSIVE Pow2(_)
Pow2(n) == IF n <= 0 THEN 1 ELSE 2 * Pow2(n - 1)

RECURSIVE SumSeq(_)
SumSeq(s) == IF s = <<>> THEN 0 ELSE Head(s) + SumSeq(Tail(s))

Last(s) == s[Len(s)]

(***************************************************************************)
(* withRetry                                                               *)
(***************************************************************************)
\* lastError = error instanceof Error ? error : new Error(String(error))
WrapErrorAlways(error, heap) == NewError(String(error), heap + 1)

WrapError(error, heap) ==
    IF IsError(error) THEN error ELSE NewError(String(error), heap + 1)

\* const delayMs = baseDelayMs * Math.pow(2, attempt)
BackoffDelayOffByOne(baseDelayMs, attempt) == baseDelayMs * Pow2(attempt + 1)

BackoffDelay(baseDelayMs, attempt) == baseDelayMs * Pow2(attempt)

\* The activation record of one withRetry call.  pc: "new" before the call,
\* "call" while fn() is pending, "sleep" while the backoff timer is pending,
\* "returned" / "thrown" once the promise has settled with out.  calls and
\* sleeps record the invocations of fn and the timers that were set; heap is
\* the number of objects allocated so far (the next Error gets oid heap+1).
NewFrame(maxRetries, baseDelayMs) ==
    [pc |-> "new", attempt |-> 0, maxRetries |-> maxRetries,
     baseDelayMs |-> baseDelayMs, lastError |-> Undefined, out |-> None,
     calls |-> 0, sleeps |-> <<>>, heap |-> 0]

\* The loop test followed by `return await fn()`, or `throw lastError!` when
\* the test fails.
LoopTest(f) ==
    IF JsLeq(f.attempt, f.maxRetries)
    THEN [f EXCEPT !.pc = "call", !.calls = @ + 1]
    ELSE [f EXCEPT !.pc = "thrown", !.out = f.lastError]

\* for (let attempt = 0; attempt <= maxRetries; ...)
RetryEnter(f) == LoopTest(f)

\* fn() has settled with outcome o = [ok, v]: return the value, or run the
\* catch block up to the break or the setTimeout.
RetrySettle(f, o) ==
    IF o.ok
    THEN [f EXCEPT !.pc = "returned", !.out = o.v,
                   !.heap = IF o.v.oid > @ THEN o.v.oid ELSE @]
    ELSE LET h == IF o.v.oid > f.heap THEN o.v.oid ELSE f.heap
             e == WrapError(o.v, h)
             h2 == IF e.oid > h THEN e.oid ELSE h
         IN IF JsEq(f.attempt, f.maxRetries)
            THEN [f EXCEPT !.pc = "thrown", !.lastError = e, !.out = e,
                           !.heap = h2]
            ELSE [f EXCEPT !.pc = "sleep", !.lastError = e, !.heap = h2,
                           !.sleeps = Append(@, BackoffDelay(f.baseDelayMs, f.attempt))]

\* the timer fired: attempt++ and the loop test again
RetryWake(f) == LoopTest([f EXCEPT !.attempt = @ + 1])

Settled(f) == f.pc \in {"returned", "thrown"}

(***************************************************************************)
(* Adapters: makeRequest                                                   *)
(***************************************************************************)
Modes == {"openai", "custom"}

\* What one fetchWithTimeout call and the server behind it can produce:
\* the deadline elapses, a non-2xx response, a body that is not JSON, a JSON
\* body that lacks one of alt_text/title/keywords, a payload that meets the
\* schema, and a payload whose title is an array (kept by the repair path).
Responses == {"timeout", "http_error", "not_json", "missing_field", "valid",
              "nonstring_title"}

MsgTimeout == "Request timeout"

MsgHttp(mode) ==
    IF mode = "openai" THEN "OpenAI API error: 500" ELSE "Custom backend error: 500"

MsgParse == "Failed to parse JSON from model response: <content>"

MsgSyntax == "Unexpected token < in JSON"

MsgShape == "Invalid response format from custom backend"

\* makeRequest of the adapter of the given mode, for one response; heap is
\* the allocation counter, so that every thrown Error is a new object.
MakeRequest(mode, resp, heap) ==
    CASE resp = "timeout" -> [ok |-> FALSE, v |-> NewError(MsgTimeout, heap + 1)]
      [] resp = "http_error" -> [ok |-> FALSE, v |-> NewError(MsgHttp(mode), heap + 1)]
      [] resp = "not_json" ->
            [ok |-> FALSE,
             v |-> NewError(IF mode = "openai" THEN MsgParse ELSE MsgSyntax, heap + 1)]
      [] resp = "missing_field" ->
            IF mode = "custom"
            THEN [ok |-> FALSE, v |-> NewError(MsgShape, heap + 1)]
            ELSE [ok |-> TRUE, v |-> Result("repaired")]
      [] resp = "valid" -> [ok |-> TRUE, v |-> Result("valid")]
      [] OTHER -> [ok |-> TRUE, v |-> Result("nonstring_title")]

\* format and shape errors: the response arrived but cannot be used
IsFormatResponse(mode, resp) ==
    \/ resp = "not_json"
    \/ mode = "custom" /\ resp = "missing_field"

\* process.env.REQUEST_RETRIES as the adapters may find it
RetriesEnv == {"unset", "0", "-1", "abc"}

\* this.retries = parseInt(process.env.REQUEST_RETRIES || '2')
ParseRetries(s) ==
    CASE s = "unset" -> DefaultRetries
      [] s = "0" -> 0
      [] s = "1" -> 1
      [] s = "-1" -> -1
      [] OTHER -> NaN

(***************************************************************************)
(* One withRetry call, stepped (RetrySpec)                                 *)
(*                                                                         *)
(* op says what is being retried: a generic operation that throws on its   *)
(* first failsBefore invocations (on every invocation when always) and     *)
(* returns afterwards, or the makeRequest of the adapter that cfg selects. *)
(* opLog is the history of the settled invocations of fn: the response     *)
(* (adapters only), whether it returned, and the value returned or thrown. *)
(***************************************************************************)
\* base delays the generic caller passes
Bases == {1, DefaultBaseDelayMs}

\* maxRetries arguments of the generic caller
RetryArgs == {NaN} \cup (-1 .. MaxRetryArg)

SuccessValue == [t |-> "value", msg |-> "success", oid |-> 0]

\* what a generic operation may throw: two Error objects with different
\* messages, a string, and undefined
GenericThrows(heap) ==
    {NewError("E1", heap + 1), NewError("E2", heap + 1), JsStr("boom"), Undefined}

DefaultCfg == [mode |-> "openai", retriesEnv |-> "unset", configOk |-> TRUE]

IdleOp == [kind |-> "none", always |-> FALSE, failsBefore |-> 0]

\* the outcomes fn() can settle with on its current invocation
OpOutcomes ==
    IF op.kind = "generic"
    THEN IF op.always \/ retry.calls <= op.failsBefore
         THEN {[resp |-> "", ok |-> FALSE, v |-> v] : v \in GenericThrows(retry.heap)}
         ELSE {[resp |-> "", ok |-> TRUE, v |-> SuccessValue]}
    ELSE {[resp |-> r, ok |-> MakeRequest(cfg.mode, r, retry.heap).ok,
           v |-> MakeRequest(cfg.mode, r, retry.heap).v] : r \in Responses}

\* withRetry is called
HarnessStart ==
    /\ op.kind # "none"
    /\ retry.pc = "new"
    /\ retry' = RetryEnter(retry)
    /\ UNCHANGED <<op, opLog, cancel, pipelineVars, unitVars>>

\* the pending fn() settles
HarnessSettle ==
    /\ retry.pc = "call"
    /\ \E o \in OpOutcomes :
          /\ retry' = RetrySettle(retry, [ok |-> o.ok, v |-> o.v])
          /\ opLog' = Append(opLog, o)
    /\ UNCHANGED <<op, cancel, pipelineVars, unitVars>>

\* the backoff timer fires
HarnessWake ==
    /\ retry.pc = "sleep"
    /\ retry' = RetryWake(retry)
    /\ UNCHANGED <<op, opLog, cancel, pipelineVars, unitVars>>

(***************************************************************************)
(* The images table and the batches                                        *)
(***************************************************************************)
ImageIds == 1 .. MaxImages

NoRow == [status |-> "absent", meta |-> "", error_message |-> ""]

PendingRow == [status |-> "pending", meta |-> "", error_message |-> ""]

NoBatch ==
    [pc |-> "unsubmitted", ids |-> <<>>, ins |-> <<>>, recs |-> <<>>,
     cur |-> 0, wpc |-> "none", held |-> None]

PipelineInit ==
    /\ nextId = 1
    /\ batch = [n \in 1 .. MaxBatches |-> NoBatch]
    /\ db = [i \in ImageIds |-> NoRow]
    /\ cause = [i \in ImageIds |-> None]
    /\ returned = [i \in ImageIds |-> None]

\* nobody has asked for the operation to be cancelled
NoCancel == [requested |-> FALSE, calls |-> 0]

HarnessIdle ==
    /\ retry = NewFrame(0, DefaultBaseDelayMs)
    /\ op = IdleOp
    /\ opLog = <<>>
    /\ cancel = NoCancel

RetryInit ==
    /\ PipelineInit
    /\ UnitIdle
    /\ opLog = <<>>
    /\ cancel = NoCancel
    /\ \/ /\ cfg = DefaultCfg
          /\ \E a \in BOOLEAN, k \in 0 .. MaxRetryArg :
                op = [kind |-> "generic", always |-> a,
                      failsBefore |-> IF a THEN 0 ELSE k]
          /\ \E n \in RetryArgs, b \in Bases : retry = NewFrame(n, b)
       \/ /\ \E m \in Modes, r \in RetriesEnv :
                cfg = [mode |-> m, retriesEnv |-> r, configOk |-> TRUE]
          /\ op = [kind |-> "adapter", always |-> FALSE, failsBefore |-> 0]
          /\ retry = NewFrame(ParseRetries(cfg.retriesEnv), DefaultBaseDelayMs)

\* the caller's operation is cancelled while withRetry waits between two
\* attempts; withRetry has no parameter through which it could learn of it
\* and its timer is never cleared, so the frame is as it was
HarnessCancel ==
    /\ retry.pc = "sleep"
    /\ ~cancel.requested
    /\ cancel' = [requested |-> TRUE, calls |-> retry.calls]
    /\ UNCHANGED <<retry, op, opLog, pipelineVars, unitVars>>

RetryNext == HarnessStart \/ HarnessSettle \/ HarnessWake \/ HarnessCancel

RetrySpec == RetryInit /\ [][RetryNext]_vars

(***************************************************************************)
(* POST /api/analyze: the pending rows                                     *)
(***************************************************************************)
MsgSqlite == "SQLITE_BUSY: database is locked"

MsgEnoent == "ENOENT: no such file or directory"

MsgConfig == "LM_BASE environment variable is required for openai mode"

MsgBackendBase == "BACKEND_BASE environment variable is required for custom mode"

MsgTrim == "metadata.title.trim is not a function"

MsgUnknown == "Unknown error"

\* the value bound by `catch (error)`; the orchestrator reads its type and
\* message only, so its identity is dropped
Caught(v) == [v EXCEPT !.oid = 0]

\* const imageId = uuidv4(): the k-th id drawn is k
Uuid(k) == k

\* await Promise.all(insertPromises) has resolved: every insert called back
\* without an error
InsertsSettledAny(b) == \E i \in 1 .. Len(b.ins) : b.ins[i] = "ok"

InsertsSettled(b) == \A i \in 1 .. Len(b.ins) : b.ins[i] = "ok"

RECURSIVE RowsFrom(_, _)
RowsFrom(rows, i) ==
    IF i > MaxImages THEN <<>>
    ELSE IF rows[i].status # "absent" THEN <<i>> \o RowsFrom(rows, i + 1)
         ELSE RowsFrom(rows, i + 1)

\* the records a worker walks: the imageRecords array of its own request
WorkListAllRows(b, rows) == RowsFrom(rows, 1)

WorkList(b, rows) == b.recs

\* the loop of processImagesAsync moves to its next record and issues the
\* update to processing for it, or falls off the end of the array
BeginNext(b, rows) ==
    IF b.cur < Len(WorkList(b, rows))
    THEN [b EXCEPT !.pc = "working", !.cur = @ + 1, !.wpc = "updProcessing",
                   !.held = None]
    ELSE [b EXCEPT !.pc = "done", !.wpc = "none", !.held = None]

\* the id of the record the worker of b is at
CurId(b, rows) == WorkList(b, rows)[b.cur]

\* the request arrives with size files: one id and one INSERT per file
Submit(n) ==
    /\ batch[n].pc = "unsubmitted"
    /\ IF n = 1 THEN TRUE ELSE batch[n - 1].pc # "unsubmitted"
    /\ \E size \in 1 .. (MaxImages - nextId + 1) :
          /\ batch' = [batch EXCEPT ![n] =
                [NoBatch EXCEPT !.pc = "inserting",
                                !.ids = [i \in 1 .. size |-> Uuid(nextId + i - 1)],
                                !.ins = [i \in 1 .. size |-> "inflight"]]]
          /\ nextId' = nextId + size
    /\ UNCHANGED <<cfg, db, cause, returned, harnessVars, unitVars>>

\* the callback of the INSERT for the i-th file runs
InsertDone(n, i) ==
    /\ batch[n].pc \in {"inserting", "rejected"}
    /\ i \in 1 .. Len(batch[n].ins)
    /\ batch[n].ins[i] = "inflight"
    /\ \E ok \in BOOLEAN :
          IF ok
          THEN LET b1 == [batch[n] EXCEPT !.ins[i] = "ok",
                                          !.recs = Append(@, batch[n].ids[i])]
                   rows == [db EXCEPT ![batch[n].ids[i]] = PendingRow]
               IN /\ db' = rows
                  /\ batch' = [batch EXCEPT ![n] =
                        IF b1.pc = "inserting" /\ InsertsSettled(b1)
                        THEN BeginNext(b1, rows) ELSE b1]
          ELSE /\ db' = db
               /\ batch' = [batch EXCEPT ![n] =
                     [@ EXCEPT !.ins[i] = "failed", !.pc = "rejected"]]
    /\ UNCHANGED <<cfg, nextId, cause, returned, harnessVars, unitVars>>

(***************************************************************************)
(* processImagesAsync                                                      *)
(***************************************************************************)
\* createModelEndpoint(): throws when a required parameter is absent
ConfigError ==
    NewError(IF cfg.mode = "custom" THEN MsgBackendBase ELSE MsgConfig, 0)

\* validateMetadata dereferences metadata.title.trim
ValidateThrows(result) == result.msg = "nonstring_title"

\* error instanceof Error ? error.message : 'Unknown error'
ErrorMessage(error) == IF IsError(error) THEN error.msg ELSE MsgUnknown

\* the withRetry call of analyzeImage, entered
AnalyzeFrame == RetryEnter(NewFrame(ParseRetries(cfg.retriesEnv), DefaultBaseDelayMs))

\* the responses the successive attempts of one analyzeImage call receive
Scripts ==
    LET mr == ParseRetries(cfg.retriesEnv)
        longest == IF JsLeq(0, mr) THEN mr + 1 ELSE 0
    IN UNION {[1 .. k -> Responses] : k \in 1 .. longest}

\* withRetry(makeRequest, this.retries) run against a script of responses
RECURSIVE RunRetry(_, _, _)
RunRetry(f, mode, script) ==
    IF f.pc = "call" /\ script # <<>>
    THEN RunRetry(RetrySettle(f, MakeRequest(mode, Head(script), f.heap)), mode,
                  Tail(script))
    ELSE IF f.pc = "sleep" THEN RunRetry(RetryWake(f), mode, script)
    ELSE f

\* the worker enters the catch block with error e for image id
EnterCatch(n, id, e) ==
    /\ batch' = [batch EXCEPT ![n] = [@ EXCEPT !.wpc = "updError", !.held = Caught(e)]]
    /\ cause' = [cause EXCEPT ![id] = Caught(e)]

\* function(err) { if (err) reject(err); else resolve(); } of the update to
\* processing: the awaited promise rejects exactly when the UPDATE failed
ProcessingUpdateRejectsNever(ok) == FALSE

ProcessingUpdateRejects(ok) == ~ok

\* callback of UPDATE ... status = 'processing'; on success the worker goes
\* on to createModelEndpoint() and endpoint.analyzeImage() up to its first
\* network call
UpdateProcessing(n) ==
    /\ batch[n].pc = "working"
    /\ batch[n].wpc = "updProcessing"
    /\ LET id == CurId(batch[n], db)
       IN \E ok \in BOOLEAN, fileOk \in BOOLEAN :
             /\ db' = IF ok THEN [db EXCEPT ![id].status = "processing"] ELSE db
             /\ IF ProcessingUpdateRejects(ok)
                THEN fileOk /\ EnterCatch(n, id, NewError(MsgSqlite, 0))
                ELSE IF ~cfg.configOk
                THEN fileOk /\ EnterCatch(n, id, ConfigError)
                ELSE IF ~fileOk
                THEN EnterCatch(n, id, NewError(MsgEnoent, 0))
                ELSE IF AnalyzeFrame.pc = "thrown"
                THEN EnterCatch(n, id, AnalyzeFrame.out)
                ELSE /\ batch' = [batch EXCEPT ![n] = [@ EXCEPT !.wpc = "analyzing"]]
                     /\ cause' = cause
    /\ UNCHANGED <<cfg, nextId, returned, harnessVars, unitVars>>

\* endpoint.analyzeImage() settles; on a result the worker validates it and
\* issues the update to completed
AnalyzeReturn(n) ==
    /\ batch[n].pc = "working"
    /\ batch[n].wpc = "analyzing"
    /\ LET id == CurId(batch[n], db)
       IN \E script \in Scripts :
             LET f == RunRetry(AnalyzeFrame, cfg.mode, script)
             IN /\ Settled(f)
                /\ f.calls = Len(script)
                /\ returned' = IF f.pc = "returned"
                               THEN [returned EXCEPT ![id] = f.out] ELSE returned
                /\ IF f.pc = "thrown"
                   THEN EnterCatch(n, id, f.out)
                   ELSE IF ValidateThrows(f.out)
                   THEN EnterCatch(n, id, NewError(MsgTrim, 0))
                   ELSE /\ batch' = [batch EXCEPT ![n] =
                              [@ EXCEPT !.wpc = "updCompleted", !.held = f.out]]
                        /\ cause' = cause
    /\ UNCHANGED <<cfg, nextId, db, harnessVars, unitVars>>

\* UPDATE images SET alt_text = ?, title = ?, keywords = ?, status = 'completed'
SetCompletedMetadataOnly(rows, id, result) == [rows EXCEPT ![id].meta = result.msg]

SetCompleted(rows, id, result) ==
    [rows EXCEPT ![id].status = "completed", ![id].meta = result.msg]

\* UPDATE images SET status = 'error', error_message = ?
SetError(rows, id, error) ==
    [rows EXCEPT ![id].status = "error", ![id].error_message = ErrorMessage(error)]

\* callback of UPDATE ... alt_text, title, keywords, status = 'completed'
UpdateCompleted(n) ==
    /\ batch[n].pc = "working"
    /\ batch[n].wpc = "updCompleted"
    /\ LET id == CurId(batch[n], db)
       IN \E ok \in BOOLEAN :
             IF ok
             THEN LET rows == SetCompleted(db, id, batch[n].held)
                  IN /\ db' = rows
                     /\ batch' = [batch EXCEPT ![n] = BeginNext(@, rows)]
                     /\ cause' = cause
             ELSE /\ db' = db
                  /\ EnterCatch(n, id, NewError(MsgSqlite, 0))
    /\ UNCHANGED <<cfg, nextId, returned, harnessVars, unitVars>>

\* callback of UPDATE ... status = 'error', error_message; a failure here
\* rejects the promise of processImagesAsync
UpdateError(n) ==
    /\ batch[n].pc = "working"
    /\ batch[n].wpc = "updError"
    /\ LET id == CurId(batch[n], db)
       IN \E ok \in BOOLEAN :
             IF ok
             THEN LET rows == SetError(db, id, batch[n].held)
                  IN /\ db' = rows
                     /\ batch' = [batch EXCEPT ![n] = BeginNext(@, rows)]
             ELSE /\ db' = db
                  /\ batch' = [batch EXCEPT ![n] = [@ EXCEPT !.pc = "aborted"]]
    /\ UNCHANGED <<cfg, nextId, cause, returned, harnessVars, unitVars>>

Init ==
    /\ cfg \in [mode : Modes, retriesEnv : RetriesEnv, configOk : BOOLEAN]
    /\ PipelineInit
    /\ HarnessIdle
    /\ UnitIdle

Next ==
    \E n \in 1 .. MaxBatches :
        \/ Submit(n)
        \/ \E i \in 1 .. MaxImages : InsertDone(n, i)
        \/ UpdateProcessing(n)
        \/ AnalyzeReturn(n)
        \/ UpdateCompleted(n)
        \/ UpdateError(n)

Spec == Init /\ [][Next]_vars

(***************************************************************************)
(* Properties                                                              *)
(***************************************************************************)
Terminal == {"completed", "error"}

BatchIds(b) == {b.ids[i] : i \in 1 .. Len(b.ids)}

Analyzing(n) == batch[n].pc = "working" /\ batch[n].wpc = "analyzing"

\* C1: the persisted status of every image only ever moves from pending to
\* processing and from processing to completed or error (after the insert
\* that creates the row as pending): no terminal status without processing
\* first, no return to pending, no change of a terminal status.
C1_StatusOrder ==
    [][\A id \in ImageIds :
          db'[id].status # db[id].status =>
             <<db[id].status, db'[id].status>> \in
                {<<"absent", "pending">>, <<"pending", "processing">>,
                 <<"processing", "completed">>, <<"processing", "error">>}]_vars

\* C2: whatever failed while an image was processed, the worker goes on:
\* once the worker of a batch has stopped, every image of the batch is
\* completed or error.
C2_EveryImageTerminal ==
    \A n \in 1 .. MaxBatches :
        batch[n].pc \in {"done", "aborted"} =>
           \A id \in BatchIds(batch[n]) : db[id].status \in Terminal

\* the generic operation that always fails, retried with maxRetries >= 0,
\* has made withRetry throw
AlwaysFailedOut ==
    /\ op.kind = "generic"
    /\ op.always
    /\ JsLeq(0, retry.maxRetries)
    /\ retry.pc = "thrown"

C4_BackoffSchedule ==
    (op.kind = "generic" /\ JsLeq(0, retry.maxRetries)) =>
       /\ (~op.always /\ op.failsBefore <= retry.maxRetries /\ Settled(retry)) =>
             /\ retry.pc = "returned"
             /\ retry.out = SuccessValue
             /\ retry.calls = op.failsBefore + 1
             /\ retry.sleeps =
                   [j \in 1 .. op.failsBefore |-> retry.baseDelayMs * Pow2(j - 1)]
             /\ SumSeq(retry.sleeps) = retry.baseDelayMs * (Pow2(op.failsBefore) - 1)
       /\ Settled(retry) => Len(retry.sleeps) = retry.calls - 1
       /\ retry.pc = "sleep" => retry.attempt < retry.maxRetries

\* C4 witness: two failures, then the success on the third invocation
C4_Witness ==
    /\ op.kind = "generic"
    /\ ~op.always
    /\ op.failsBefore = 2
    /\ retry.pc = "returned"
    /\ retry.calls = 3
    /\ Len(retry.sleeps) = 2

\* C5: a response that cannot be parsed as JSON, or (custom adapter) lacks a
\* required field, ends analyzeImage at once: a call whose first response is
\* such a response has failed after one network attempt and no backoff wait,
\* whatever the retry count.
C5_FormatErrorsNotRetried ==
    (/\ op.kind = "adapter"
     /\ opLog # <<>>
     /\ IsFormatResponse(cfg.mode, opLog[1].resp)) =>
       /\ retry.pc = "thrown"
       /\ retry.calls = 1
       /\ retry.sleeps = <<>>

\* C6: while an adapter call of a batch is in flight, every file of the
\* batch has its row, and the files the worker has not come to yet are
\* still pending.
C6_PendingBeforeFirstCall ==
    \A n \in 1 .. MaxBatches :
        Analyzing(n) =>
           /\ \A id \in BatchIds(batch[n]) : db[id].status # "absent"
           /\ \A k \in 1 .. Len(WorkList(batch[n], db)) :
                 k > batch[n].cur =>
                    db[WorkList(batch[n], db)[k]].status = "pending"

\* C6 witness: the first adapter call of a batch of two files is in flight
C6_Witness ==
    \E n \in 1 .. MaxBatches :
        /\ Analyzing(n)
        /\ Len(batch[n].ids) = 2
        /\ batch[n].cur = 1
        /\ \A id \in BatchIds(batch[n]) : db[id].status \in {"pending", "processing"}

\* C7: an adapter call for an image is in flight only while the stored
\* status of that image is processing.
C7_InFlightOnlyWhileProcessing ==
    \A n \in 1 .. MaxBatches :
        Analyzing(n) => db[CurId(batch[n], db)].status = "processing"

\* C7 witness: the call for the second image of a batch is in flight after
\* the first image has reached a terminal status
C7_Witness ==
    \E n \in 1 .. MaxBatches :
        /\ Analyzing(n)
        /\ batch[n].cur = 2
        /\ db[WorkList(batch[n], db)[1]].status \in Terminal
        /\ db[CurId(batch[n], db)].status = "processing"

\* C8: within a batch at most one image is processing at a time, and images
\* enter processing in the order in which their files were submitted.
C8_SubmissionOrder ==
    \A n \in 1 .. MaxBatches :
        /\ Cardinality({id \in BatchIds(batch[n]) : db[id].status = "processing"}) <= 1
        /\ \A i, j \in 1 .. Len(batch[n].ids) :
              (i < j /\ db[batch[n].ids[j]].status \notin {"absent", "pending"}) =>
                 db[batch[n].ids[i]].status \notin {"absent", "pending"}

\* the batches whose worker is walking, or has walked, its records
Started(n) == batch[n].pc \in {"working", "done", "aborted"}

\* C9: at most one analysis call is in flight per image id, and no image id
\* is in the records of two workers.
C9_OneCallPerImage ==
    /\ \A id \in ImageIds :
          Cardinality({n \in 1 .. MaxBatches :
                          Analyzing(n) /\ CurId(batch[n], db) = id}) <= 1
    /\ \A n, m \in 1 .. MaxBatches :
          (n # m /\ Started(n) /\ Started(m)) =>
             \A k \in 1 .. Len(WorkList(batch[n], db)) :
                \A l \in 1 .. Len(WorkList(batch[m], db)) :
                   WorkList(batch[n], db)[k] # WorkList(batch[m], db)[l]

\* C9 witness: the workers of two batches each have a call in flight
C9_Witness ==
    /\ Analyzing(1)
    /\ Analyzing(2)
    /\ CurId(batch[1], db) # CurId(batch[2], db)

\* C10: an image in status error stores the message of the error that made
\* its processing fail.
C10_MessageVerbatim ==
    \A id \in ImageIds :
        db[id].status = "error" =>
           /\ IsError(cause[id])
           /\ db[id].error_message = cause[id].msg

\* C11: when analyzeImage has returned a result for an image and storage
\* accepted the updates, the image ends completed with exactly that result
\* as its metadata; validation never turns it into an error.
C11_ResultStoredAsCompleted ==
    \A id \in ImageIds :
        (/\ returned[id] # None
         /\ db[id].status \in Terminal
         /\ cause[id].msg # MsgSqlite) =>
           /\ db[id].status = "completed"
           /\ db[id].meta = returned[id].msg

\* C20: in a process whose selected mode lacks a required connection
\* parameter the configuration error comes before any processing: no image
\* leaves pending.
C20_ConfigFailsFast ==
    ~cfg.configOk => \A id \in ImageIds : db[id].status \in {"absent", "pending"}

\* C24: once the operation is cancelled during a backoff wait, fn is not
\* invoked again.
C24_SleepCancellable ==
    cancel.requested => retry.calls = cancel.calls

\* C28: whatever maxRetries is, withRetry has invoked fn at least once when
\* it settles, and what it throws is an Error taken from a failed attempt.
C28_AtLeastOneAttempt ==
    Settled(retry) =>
       /\ retry.calls >= 1
       /\ retry.pc = "thrown" =>
             /\ IsError(retry.out)
             /\ opLog # <<>>
             /\ ~Last(opLog).ok

\* the worker of batch n has left image id behind: it is at a later record,
\* has finished, or was aborted
Left(n, id) ==
    /\ \E k \in 1 .. Len(batch[n].recs) : batch[n].recs[k] = id
    /\ \/ batch[n].pc \in {"done", "aborted"}
       \/ /\ batch[n].pc = "working"
          /\ \E k \in 1 .. batch[n].cur - 1 : batch[n].recs[k] = id

\* C25: once an image is stored as completed no step changes its row.
C25_CompletedRowFrozen ==
    [][\A id \in ImageIds : db[id].status = "completed" => db'[id] = db[id]]_vars

\* C25 witness: image 1 is completed and the pipeline has since taken
\* another image into its failure handling and stored it as error
C25_Witness ==
    /\ db[1].status = "completed"
    /\ db[2].status = "error"
    /\ \E n \in 1 .. MaxBatches : Left(n, 1) /\ Left(n, 2)

\* C26: an image whose update to processing, to completed or to error
\* failed ends recorded as error with the storage failure's message.
C26_StorageFailureSurfaced ==
    \A n \in 1 .. MaxBatches : \A id \in ImageIds :
        (/\ Left(n, id)
         /\ \/ cause[id].msg = MsgSqlite
            \/ batch[n].pc = "aborted" /\ CurId(batch[n], db) = id) =>
           /\ db[id].status = "error"
           /\ db[id].error_message = MsgSqlite

Rep(c, n) == [i \in 1 .. n |-> c]

JAbsent == [t |-> "absent", s |-> <<>>, a |-> <<>>, n |-> 0]

JString(str) == [t |-> "str", s |-> str, a |-> <<>>, n |-> 0]

JArray(arr) == [t |-> "arr", s |-> <<>>, a |-> arr, n |-> 0]

JNumber(num) == [t |-> "num", s |-> <<>>, a |-> <<>>, n |-> num]

JObject(convertible) ==
    [t |-> "obj", s |-> <<>>, a |-> <<>>, n |-> IF convertible THEN 1 ELSE 0]

\* the value counts as true in `x || y` and `!x`
Truthy(v) ==
    CASE v.t = "str" -> v.s # <<>>
      [] v.t = "arr" -> TRUE
      [] v.t = "obj" -> TRUE
      [] v.t = "num" -> v.n # 0
      [] OTHER -> FALSE

\* a || b || c
FirstTruthy(a, b, c) == IF Truthy(a) THEN a ELSE IF Truthy(b) THEN b ELSE c

\* x.length >= n  (a number has no length: undefined >= n is false)
LengthGeq(v, n) ==
    CASE v.t = "str" -> Len(v.s) >= n
      [] v.t = "arr" -> Len(v.a) >= n
      [] OTHER -> FALSE

DigitChar(d) == <<"0", "1", "2", "3", "4", "5", "6", "7", "8", "9">>[d + 1]

\* the decimal digits of a natural number
RECURSIVE Digits(_)
Digits(n) == IF n < 10 THEN <<DigitChar(n)>> ELSE Digits(n \div 10) \o <<DigitChar(n % 10)>>

\* Array.prototype.join(',')
RECURSIVE Join(_)
Join(arr) ==
    IF arr = <<>> THEN <<>>
    ELSE IF Len(arr) = 1 THEN arr[1]
    ELSE arr[1] \o <<",">> \o Join(Tail(arr))

\* `${v}` throws a TypeError: the object cannot be converted to a primitive
TemplateThrows(v) == v.t = "obj" /\ v.n = 0

\* `${v}` inside a template literal
Template(v) ==
    CASE v.t = "str" -> v.s
      [] v.t = "arr" -> Join(v.a)
      [] v.t = "num" -> Digits(v.n)
      [] v.t = "obj" -> <<"[", "o", "b", "j", "e", "c", "t", " ", "O", "b", "j", "e", "c", "t", "]">>
      [] OTHER -> <<"u", "n", "d", "e", "f", "i", "n", "e", "d">>

\* String.prototype.substring(0, n)
Substring0(str, n) == SubSeq(str, 1, IF Len(str) < n THEN Len(str) ELSE n)

\* the string without its leading blanks
TrimStart(str) ==
    LET kept == {i \in 1 .. Len(str) : str[i] # " "}
    IN IF kept = {} THEN <<>>
       ELSE SubSeq(str, CHOOSE i \in kept : \A j \in kept : i <= j, Len(str))

\* the string without its trailing blanks
TrimEnd(str) ==
    LET kept == {i \in 1 .. Len(str) : str[i] # " "}
    IN IF kept = {} THEN <<>>
       ELSE SubSeq(str, 1, CHOOSE i \in kept : \A j \in kept : j <= i)

\* String.prototype.trim()
Trim(str) == TrimEnd(TrimStart(str))

\* Array.prototype.slice(0, n)
Slice0(arr, n) == SubSeq(arr, 1, IF Len(arr) < n THEN Len(arr) ELSE n)

InSeq(x, arr) == \E i \in 1 .. Len(arr) : arr[i] = x

\* the positions of arr that hold an element not seen at an earlier position
FirstSeen(arr) ==
    {i \in 1 .. Len(arr) : \A j \in 1 .. i - 1 : arr[j] # arr[i]}

DedupeNone(arr) == arr

\* Array.from(new Set(arr)): the distinct elements in insertion order
Dedupe(arr) ==
    LET seen == FirstSeen(arr)
    IN [k \in 1 .. Cardinality(seen) |->
           arr[CHOOSE i \in seen : Cardinality({j \in seen : j <= i}) = k]]

(***************************************************************************)
(* processResult (validation/resultSchema.ts)                              *)
(***************************************************************************)
\* alt_text: z.string().min(5).max(160)
AltTextMinLen == 5

AltTextMaxLen == 160

\* title: z.string().min(5)
TitleMinLen == 5

\* keywords: z.array(z.string()).min(5).max(50)
KeywordsMinCount == 5

KeywordsMaxCount == 50

\* validated.title.length > 70 ? validated.title.substring(0, 70).trim()
TitleKeep == 70

\* uniqueKeywords.slice(0, 25)
KeywordsKeep == 25

\* keywords.length < 5, altText.length >= 5, title.length >= 5
RepairMin == 5

\* const fallbackKeywords = ['image', 'photo', 'visual', 'content', 'media']
FallbackKeywords ==
    <<<<"i", "m", "a", "g", "e">>, <<"p", "h", "o", "t", "o">>, <<"v", "i", "s", "u", "a", "l">>, <<"c", "o", "n", "t", "e", "n", "t">>, <<"m", "e", "d", "i", "a">>>>

PlaceholderAltText == <<"P", "r", "o", "f", "e", "s", "s", "i", "o", "n", "a", "l", " ", "i", "m", "a", "g", "e">>

PlaceholderTitle == <<"H", "i", "g", "h", "-", "q", "u", "a", "l", "i", "t", "y", " ", "i", "m", "a", "g", "e">>

PrefixAltText == <<"P", "r", "o", "f", "e", "s", "s", "i", "o", "n", "a", "l", " ">>

PrefixTitle == <<"H", "i", "g", "h", "-", "q", "u", "a", "l", "i", "t", "y", " ">>

\* a decoded response: null, or an object with these five fields
NullPayload ==
    [isObject |-> FALSE, alt_text |-> JAbsent, title |-> JAbsent,
     keywords |-> JAbsent, description |-> JAbsent, caption |-> JAbsent]

Payload(alt, title, kws, desc, cap) ==
    [isObject |-> TRUE, alt_text |-> alt, title |-> title, keywords |-> kws,
     description |-> desc, caption |-> cap]

\* ResultSchema.parse(rawResult) does not throw
SchemaAccepts(raw) ==
    /\ raw.isObject
    /\ raw.alt_text.t = "str"
    /\ Len(raw.alt_text.s) >= AltTextMinLen
    /\ Len(raw.alt_text.s) <= AltTextMaxLen
    /\ raw.title.t = "str"
    /\ Len(raw.title.s) >= TitleMinLen
    /\ raw.keywords.t = "arr"
    /\ Len(raw.keywords.a) >= KeywordsMinCount
    /\ Len(raw.keywords.a) <= KeywordsMaxCount

\* the try block: trim the title, de-duplicate and cap the keywords
StrictResult(raw) ==
    [alt_text |-> raw.alt_text,
     title |-> JString(IF Len(raw.title.s) > TitleKeep
                       THEN Trim(Substring0(raw.title.s, TitleKeep))
                       ELSE raw.title.s),
     keywords |-> JArray(Slice0(Dedupe(raw.keywords.a), KeywordsKeep))]

\* the keywords of the catch block
RepairKeywords(raw) ==
    LET k0 == IF raw.keywords.t = "arr" THEN raw.keywords.a ELSE <<>>
        k1 == IF Len(k0) < RepairMin
              THEN Slice0(k0 \o FallbackKeywords, KeywordsKeep) ELSE k0
        k2 == Dedupe(k1)
        k3 == IF Len(k2) < RepairMin THEN FallbackKeywords ELSE k2
    IN Slice0(k3, KeywordsKeep)

\* const altText = rawResult?.alt_text || rawResult?.description || ...
RepairAltText(raw) ==
    FirstTruthy(raw.alt_text, raw.description, JString(PlaceholderAltText))

\* const title = rawResult?.title || rawResult?.caption || ...
RepairTitle(raw) == FirstTruthy(raw.title, raw.caption, JString(PlaceholderTitle))

\* the catch block throws while it builds the object it returns
RepairThrows(raw) ==
    \/ ~LengthGeq(RepairAltText(raw), RepairMin) /\ TemplateThrows(RepairAltText(raw))
    \/ ~LengthGeq(RepairTitle(raw), RepairMin) /\ TemplateThrows(RepairTitle(raw))

\* the catch block: salvage the fields, with fallbacks and qualifier words
RepairResult(raw) ==
    LET altText == RepairAltText(raw)
        title == RepairTitle(raw)
    IN [alt_text |-> IF LengthGeq(altText, RepairMin) THEN altText
                     ELSE JString(PrefixAltText \o Template(altText)),
        title |-> IF LengthGeq(title, RepairMin) THEN title
                  ELSE JString(PrefixTitle \o Template(title)),
        keywords |-> JArray(RepairKeywords(raw))]

ProcessResult(raw) ==
    IF SchemaAccepts(raw) THEN StrictResult(raw) ELSE RepairResult(raw)

\* processResult(rawResult) raises instead of returning
ProcessResultRaises(raw) == ~SchemaAccepts(raw) /\ RepairThrows(raw)

\* a result handed to processResult again
AsPayload(res) == Payload(res.alt_text, res.title, res.keywords, JAbsent, JAbsent)

(***************************************************************************)
(* processResult applied to a payload, and to its own result (ResultSpec)  *)
(***************************************************************************)
\* the i-th keyword: k1, k2, ...
Kw(i) == <<"k">> \o Digits(i)

KwRange(n) == [i \in 1 .. n |-> Kw(i)]

FiveWords == KwRange(5)

\* alt_text values: missing, too short, in range, too long, an array, a number
AltTexts ==
    {JAbsent, JString(<<"a", "b", "c">>), JString(Rep("a", 12)),
     JString(Rep("a", AltTextMaxLen + 1)), JArray(FiveWords), JNumber(42)}

\* 71 characters: "abc", 67 blanks, "x"
TitleGap == <<"a", "b", "c">> \o Rep(" ", TitleKeep - 3) \o <<"x">>

\* 71 characters whose 70th is a blank
TitleTrail == Rep("t", TitleKeep - 1) \o <<" ", "x">>

\* title values: missing, too short, in range, three over-long ones, an
\* array of five strings, a number
Titles ==
    {JAbsent, JString(<<"H", "i">>), JString(Rep("t", 24)),
     JString(Rep("t", TitleKeep + 10)), JString(TitleGap), JString(TitleTrail),
     JArray(FiveWords), JNumber(42)}

\* keywords values: missing, not an array, short lists, lists of five and
\* six with repetitions, a long list with a repetition, more than 50 entries
KeywordLists ==
    {JAbsent, JString(<<"c", "a", "r">>),
     JArray(KwRange(2)),
     JArray(<<Kw(1), Kw(1)>>),
     JArray(<<<<"i", "m", "a", "g", "e">>, Kw(1)>>),
     JArray(FiveWords),
     JArray(<<Kw(1), Kw(1), Kw(2), Kw(3), Kw(4)>>),
     JArray(<<Kw(1), Kw(2), Kw(1), Kw(3), Kw(4), Kw(5)>>),
     JArray(<<Kw(2), Kw(1)>> \o KwRange(LongListDistinct)),
     JArray(KwRange(30) \o KwRange(KeywordsMaxCount - 29))}

Descriptions == {JAbsent, JString(Rep("d", 10))}

Captions == {JAbsent, JString(<<"c", "a", "p">>)}

Payloads ==
    {NullPayload} \cup
    {Payload(a, t, k, d, c) :
        a \in AltTexts, t \in Titles, k \in KeywordLists, d \in Descriptions,
        c \in Captions}

ResultInit ==
    /\ cfg = DefaultCfg
    /\ PipelineInit
    /\ HarnessIdle
    /\ vm = [step |-> "idle"]
    /\ fac = [step |-> "idle"]
    /\ hl = [step |-> "idle"]
    /\ sib = [step |-> "idle"]
    /\ \E raw \in Payloads : pr = [step |-> "in", raw |-> raw]

\* processResult(rawResult)
PrProcess ==
    /\ pr.step = "in"
    /\ pr' = [step |-> "once", raw |-> pr.raw, res |-> ProcessResult(pr.raw)]
    /\ UNCHANGED <<pipelineVars, harnessVars, vm, fac, hl, sib>>

\* processResult(processResult(rawResult))
PrReprocess ==
    /\ pr.step = "once"
    /\ pr' = [step |-> "twice", raw |-> pr.raw, res |-> pr.res,
              res2 |-> ProcessResult(AsPayload(pr.res))]
    /\ UNCHANGED <<pipelineVars, harnessVars, vm, fac, hl, sib>>

ResultNext == PrProcess \/ PrReprocess

ResultSpec == ResultInit /\ [][ResultNext]_vars

Processed == pr.step \in {"once", "twice"}

Elems(arr) == {arr[i] : i \in 1 .. Len(arr)}

HasDuplicates(arr) == \E i, j \in 1 .. Len(arr) : i # j /\ arr[i] = arr[j]

\* the position at which x first occurs in arr
FirstIndex(x, arr) ==
    CHOOSE i \in 1 .. Len(arr) : arr[i] = x /\ \A j \in 1 .. i - 1 : arr[j] # x

\* out is what the claim describes for the list inp: every distinct keyword
\* once, in order of first occurrence, cut to the first 25
DistinctFirstSeen(out, inp) ==
    /\ ~HasDuplicates(out)
    /\ Elems(out) \subseteq Elems(inp)
    /\ Len(out) = IF Cardinality(Elems(inp)) < 25 THEN Cardinality(Elems(inp)) ELSE 25
    /\ \A i, j \in 1 .. Len(out) :
          i < j => FirstIndex(out[i], inp) < FirstIndex(out[j], inp)
    /\ \A x \in Elems(inp) \ Elems(out) :
          \A y \in Elems(out) : FirstIndex(y, inp) < FirstIndex(x, inp)

\* C14: processResult is idempotent on payloads that meet the strict schema.
C14_Idempotent ==
    (pr.step = "twice" /\ SchemaAccepts(pr.raw)) => pr.res2 = pr.res

\* C15 (as stated): for every keyword list with duplicates the processed
\* keywords are the distinct keywords, once each, in order of first
\* occurrence, cut to the first 25.
C15_DistinctOnce ==
    (/\ Processed
     /\ pr.raw.keywords.t = "arr"
     /\ HasDuplicates(pr.raw.keywords.a)) =>
       DistinctFirstSeen(pr.res.keywords.a, pr.raw.keywords.a)

\* C15 (amended): the same, for the lists handled by the strict path and the
\* lists with at least 5 distinct keywords handled by the repair path.
C15_DistinctOnceUnlessPadded ==
    (/\ Processed
     /\ pr.raw.keywords.t = "arr"
     /\ HasDuplicates(pr.raw.keywords.a)
     /\ \/ SchemaAccepts(pr.raw)
        \/ Cardinality(Elems(pr.raw.keywords.a)) >= 5) =>
       DistinctFirstSeen(pr.res.keywords.a, pr.raw.keywords.a)

\* C15 witness: a list with a repetition and more than 25 distinct keywords
\* has been processed on the strict path and cut to 25
C15_Witness ==
    /\ Processed
    /\ SchemaAccepts(pr.raw)
    /\ HasDuplicates(pr.raw.keywords.a)
    /\ Cardinality(Elems(pr.raw.keywords.a)) > 25
    /\ Len(pr.res.keywords.a) = 25
    /\ pr.res.keywords.a[1] = Kw(2)

\* C16: for a title longer than 70 characters the returned title has at
\* most 70 characters and no trailing whitespace, on either path.
C16_TitleAtMost70 ==
    (/\ Processed
     /\ pr.raw.title.t = "str"
     /\ Len(pr.raw.title.s) > 70) =>
       /\ pr.res.title.t = "str"
       /\ Len(pr.res.title.s) <= 70
       /\ pr.res.title.s = TrimEnd(pr.res.title.s)

\* C17: a repaired result has an alt_text string and a title string of at
\* least 5 characters each and at least 5 keywords.
C17_RepairMinimums ==
    (Processed /\ ~SchemaAccepts(pr.raw)) =>
       /\ pr.res.alt_text.t = "str"
       /\ Len(pr.res.alt_text.s) >= 5
       /\ pr.res.title.t = "str"
       /\ Len(pr.res.title.s) >= 5
       /\ Len(pr.res.keywords.a) >= 5

\* C18: every result of processResult has an alt_text of 5 to 160
\* characters and 5 to 25 keywords without duplicates.
C18_ResultBounds ==
    Processed =>
       /\ pr.res.alt_text.t = "str"
       /\ Len(pr.res.alt_text.s) >= 5
       /\ Len(pr.res.alt_text.s) <= 160
       /\ Len(pr.res.keywords.a) >= 5
       /\ Len(pr.res.keywords.a) <= 25
       /\ ~HasDuplicates(pr.res.keywords.a)

(***************************************************************************)
(* validateMetadata (routes/analyze.ts)                                    *)
(***************************************************************************)
\* preset?.title_max_length || 70
DefaultTitleMax == 70

\* metadata.alt_text.length > 125
AltTextWarnLen == 125

\* preset?.keywords_min || 15
DefaultKeywordsMin == 15

\* preset?.keywords_max || 25
DefaultKeywordsMax == 25

UpperCase == <<"A", "B", "C", "D", "E", "F", "G", "H", "I", "J", "K", "L", "M", "N", "O", "P", "Q", "R", "S", "T", "U", "V", "W", "X", "Y", "Z">>

LowerCase == <<"a", "b", "c", "d", "e", "f", "g", "h", "i", "j", "k", "l", "m", "n", "o", "p", "q", "r", "s", "t", "u", "v", "w", "x", "y", "z">>

LowerChar(c) ==
    IF \E i \in 1 .. 26 : UpperCase[i] = c
    THEN LowerCase[CHOOSE i \in 1 .. 26 : UpperCase[i] = c]
    ELSE c

\* String.prototype.toLowerCase()
ToLowerCase(str) == [i \in 1 .. Len(str) |-> LowerChar(str[i])]

\* metadata: null, or an object with title, alt_text and keywords
NoMetadata == [present |-> FALSE, title |-> JAbsent, alt_text |-> JAbsent, keywords |-> JAbsent]

Metadata(title, alt, kws) ==
    [present |-> TRUE, title |-> title, alt_text |-> alt, keywords |-> kws]

\* preset: null, or a row of the presets table
NoPreset == [present |-> FALSE, title_max_length |-> JAbsent, keywords_min |-> JAbsent, keywords_max |-> JAbsent]

Preset(tmax, kmin, kmax) ==
    [present |-> TRUE, title_max_length |-> tmax, keywords_min |-> kmin, keywords_max |-> kmax]

\* a message pushed to warnings or errors, with the numbers it quotes
Message(w, n, lim) == [w |-> w, n |-> n, lim |-> lim]

\* preset?.field || dflt
OrDefault(field, dflt) == IF Truthy(field) THEN field.n ELSE dflt

\* x.trim() is a TypeError when x is truthy and not a string
TrimThrows(v) == Truthy(v) /\ v.t # "str"

\* !x || x.trim().length === 0
Blank(v) == ~Truthy(v) \/ Trim(v.s) = <<>>

TitleErrors(metadata) ==
    IF Blank(metadata.title) THEN <<Message("Title is required", 0, 0)>> ELSE <<>>

TitleWarnings(metadata, preset) ==
    LET maxLength == OrDefault(preset.title_max_length, DefaultTitleMax)
    IN IF ~Blank(metadata.title) /\ Len(metadata.title.s) > maxLength
       THEN <<Message("Title exceeds", Len(metadata.title.s), maxLength)>>
       ELSE <<>>

AltWarningsNone(metadata) == <<>>

AltWarnings(metadata) ==
    IF Blank(metadata.alt_text) THEN <<Message("Alt text is missing", 0, 0)>>
    ELSE IF Len(metadata.alt_text.s) > AltTextWarnLen
    THEN <<Message("Alt text exceeds", Len(metadata.alt_text.s), AltTextWarnLen)>>
    ELSE <<>>

KeywordErrors(metadata) ==
    IF metadata.keywords.t # "arr"
    THEN <<Message("Keywords must be an array", 0, 0)>> ELSE <<>>

MinKeywordsDefault(preset) == DefaultKeywordsMin

MinKeywords(preset) == OrDefault(preset.keywords_min, DefaultKeywordsMin)

MaxKeywords(preset) == OrDefault(preset.keywords_max, DefaultKeywordsMax)

LowerCased(arr) == [i \in 1 .. Len(arr) |-> ToLowerCase(arr[i])]

KeywordWarnings(metadata, preset) ==
    IF metadata.keywords.t # "arr" THEN <<>>
    ELSE LET count == Len(metadata.keywords.a)
             uniqueKeywords == Dedupe(LowerCased(metadata.keywords.a))
         IN (IF count < MinKeywords(preset)
             THEN <<Message("Too few keywords", count, MinKeywords(preset))>> ELSE <<>>)
            \o (IF count > MaxKeywords(preset)
                THEN <<Message("Too many keywords", count, MaxKeywords(preset))>> ELSE <<>>)
            \o (IF Len(uniqueKeywords) # count
                THEN <<Message("Duplicate keywords detected", 0, 0)>> ELSE <<>>)

Threw == [threw |-> TRUE, is_valid |-> FALSE, warnings |-> <<>>, errors |-> <<>>]

Returned(warnings, errors) ==
    [threw |-> FALSE, is_valid |-> (Len(errors) = 0), warnings |-> warnings,
     errors |-> errors]

ValidateMetadata(metadata, preset) ==
    IF ~metadata.present
    THEN [threw |-> FALSE, is_valid |-> FALSE, warnings |-> <<>>,
          errors |-> <<Message("No metadata provided", 0, 0)>>]
    ELSE IF TrimThrows(metadata.title) \/ TrimThrows(metadata.alt_text) THEN Threw
    ELSE Returned(TitleWarnings(metadata, preset) \o AltWarnings(metadata)
                    \o KeywordWarnings(metadata, preset),
                  TitleErrors(metadata) \o KeywordErrors(metadata))

(***************************************************************************)
(* validateMetadata applied to a metadata object and a preset              *)
(* (ValidateSpec)                                                          *)
(***************************************************************************)
\* titles: missing, empty, blank, blank and longer than 60 and than 70,
\* 24, 61 and 80 characters, an array
MetaTitles ==
    {JAbsent, JString(<<>>), JString(Rep(" ", 3)), JString(Rep(" ", 61)),
     JString(Rep(" ", 71)), JString(Rep("t", 24)), JString(Rep("t", 61)),
     JString(Rep("t", 80)), JArray(FiveWords)}

\* alt texts: missing, blank, 12, 125 and 126 characters
MetaAltTexts ==
    {JAbsent, JString(Rep(" ", 2)), JString(Rep("a", 12)),
     JString(Rep("a", AltTextWarnLen)), JString(Rep("a", AltTextWarnLen + 1))}

KeywordCounts == {0, 9, 10, 16, 20, 21, 25, 26, 31}

\* keywords: missing, not an array, distinct lists of several lengths, a
\* list repeating a keyword and a list repeating one in another case
MetaKeywords ==
    {JAbsent, JString(<<"c", "a", "r">>)} \cup
    {JArray(KwRange(n)) : n \in KeywordCounts} \cup
    {JArray(<<Kw(1)>> \o KwRange(15)),
     JArray(<<<<"C", "a", "r">>, <<"c", "a", "r">>>> \o KwRange(14))}

Metadatas ==
    {NoMetadata} \cup
    {Metadata(t, a, k) : t \in MetaTitles, a \in MetaAltTexts, k \in MetaKeywords}

\* rows of the presets table: the routes that write it keep
\* 1 <= title_max_length <= 200 and 1 <= keywords_min <= keywords_max <= 50;
\* a column may be NULL
Presets ==
    {NoPreset} \cup
    {Preset(tmax, kmin, kmax) :
        tmax \in {JAbsent, JNumber(60)},
        kmin \in {JAbsent, JNumber(1), JNumber(10), JNumber(20)},
        kmax \in {JAbsent, JNumber(20), JNumber(30)}}

ValidateInit ==
    /\ cfg = DefaultCfg
    /\ PipelineInit
    /\ HarnessIdle
    /\ pr = [step |-> "idle"]
    /\ fac = [step |-> "idle"]
    /\ hl = [step |-> "idle"]
    /\ sib = [step |-> "idle"]
    /\ \E m \in Metadatas, p \in Presets :
          vm = [step |-> "in", metadata |-> m, preset |-> p]

\* validateMetadata(metadata, preset)
VmValidate ==
    /\ vm.step = "in"
    /\ vm' = [step |-> "done", metadata |-> vm.metadata, preset |-> vm.preset,
              out |-> ValidateMetadata(vm.metadata, vm.preset)]
    /\ UNCHANGED <<pipelineVars, harnessVars, pr, fac, hl, sib>>

ValidateNext == VmValidate

ValidateSpec == ValidateInit /\ [][ValidateNext]_vars

VmReturned == vm.step = "done" /\ ~vm.out.threw

Kinds(msgs) == {msgs[i].w : i \in 1 .. Len(msgs)}

\* some two keywords are equal when letter case is ignored
CaseDuplicates(arr) ==
    \E i, j \in 1 .. Len(arr) : i # j /\ ToLowerCase(arr[i]) = ToLowerCase(arr[j])

\* the limit the claim names: the preset's value, or the default when the
\* preset or its field is absent
LimitOf(field, dflt) == IF field.t = "num" THEN field.n ELSE dflt

IsBlankString(v) == v.t # "str" \/ \A i \in 1 .. Len(v.s) : v.s[i] = " "

\* what C12 says of errors and is_valid
ErrorsAsClaimed ==
    /\ vm.out.is_valid = (vm.out.errors = <<>>)
    /\ ("No metadata provided" \in Kinds(vm.out.errors)) = ~vm.metadata.present
    /\ ("Title is required" \in Kinds(vm.out.errors)) =
          (vm.metadata.present /\ IsBlankString(vm.metadata.title))
    /\ ("Keywords must be an array" \in Kinds(vm.out.errors)) =
          (vm.metadata.present /\ vm.metadata.keywords.t # "arr")
    /\ Kinds(vm.out.errors) \subseteq
          {"No metadata provided", "Title is required", "Keywords must be an array"}

\* what C12 says of alt text and keyword warnings
OtherWarningsAsClaimed ==
    vm.metadata.present =>
       /\ IsBlankString(vm.metadata.alt_text) =>
             "Alt text is missing" \in Kinds(vm.out.warnings)
       /\ (vm.metadata.alt_text.t = "str" /\ Len(vm.metadata.alt_text.s) > 125) =>
             Kinds(vm.out.warnings) \cap {"Alt text is missing", "Alt text exceeds"} # {}
       /\ vm.metadata.keywords.t = "arr" =>
             LET count == Len(vm.metadata.keywords.a)
             IN /\ count < LimitOf(vm.preset.keywords_min, 15) =>
                      "Too few keywords" \in Kinds(vm.out.warnings)
                /\ count > LimitOf(vm.preset.keywords_max, 25) =>
                      "Too many keywords" \in Kinds(vm.out.warnings)
                /\ CaseDuplicates(vm.metadata.keywords.a) =>
                      "Duplicate keywords detected" \in Kinds(vm.out.warnings)

TitleTooLong ==
    /\ vm.metadata.title.t = "str"
    /\ Len(vm.metadata.title.s) > LimitOf(vm.preset.title_max_length, 70)

FactoryInit ==
    /\ cfg \in [mode : Modes, retriesEnv : {"unset"}, configOk : {TRUE}]
    /\ PipelineInit
    /\ HarnessIdle
    /\ pr = [step |-> "idle"]
    /\ vm = [step |-> "idle"]
    /\ hl = [step |-> "idle"]
    /\ sib = [step |-> "idle"]
    /\ fac = [step |-> "run", instance |-> 0, constructed |-> 0, uses |-> <<>>,
              resets |-> 0]

\* createModelEndpoint(): a new adapter on every call
CreateModelEndpoint(f) == f.constructed + 1

Use(by, inst) == [by |-> by, inst |-> inst]

\* processImagesAsync: const endpoint = createModelEndpoint()
FacAnalyze ==
    /\ fac.step = "run"
    /\ Len(fac.uses) < MaxAccesses
    /\ fac' = [fac EXCEPT !.constructed = CreateModelEndpoint(fac),
                          !.uses = Append(@, Use("analyze", CreateModelEndpoint(fac)))]
    /\ UNCHANGED <<pipelineVars, harnessVars, pr, vm, hl, sib>>

\* GET /api/health/model: const endpoint = createModelEndpoint()
FacHealth ==
    /\ fac.step = "run"
    /\ Len(fac.uses) < MaxAccesses
    /\ fac' = [fac EXCEPT !.constructed = CreateModelEndpoint(fac),
                          !.uses = Append(@, Use("health", CreateModelEndpoint(fac)))]
    /\ UNCHANGED <<pipelineVars, harnessVars, pr, vm, hl, sib>>

\* getModelEndpoint()
FacGet ==
    /\ fac.step = "run"
    /\ Len(fac.uses) < MaxAccesses
    /\ IF fac.instance = 0
       THEN fac' = [fac EXCEPT !.instance = CreateModelEndpoint(fac),
                               !.constructed = CreateModelEndpoint(fac),
                               !.uses = Append(@, Use("get", CreateModelEndpoint(fac)))]
       ELSE fac' = [fac EXCEPT !.uses = Append(@, Use("get", fac.instance))]
    /\ UNCHANGED <<pipelineVars, harnessVars, pr, vm, hl, sib>>

\* resetModelEndpoint()
FacReset ==
    /\ fac.step = "run"
    /\ fac.resets < MaxAccesses
    /\ fac' = [fac EXCEPT !.instance = 0, !.resets = @ + 1]
    /\ UNCHANGED <<pipelineVars, harnessVars, pr, vm, hl, sib>>

FactoryNext == FacAnalyze \/ FacHealth \/ FacGet \/ FacReset

FactorySpec == FactoryInit /\ [][FactoryNext]_vars

\* C19: with no reset, image analyses and health checks construct the
\* adapter once and all use that one instance.
C19_OneAdapterPerProcess ==
    (fac.step = "run" /\ fac.resets = 0) =>
       /\ fac.constructed <= 1
       /\ \A i, j \in 1 .. Len(fac.uses) : fac.uses[i].inst = fac.uses[j].inst

(***************************************************************************)
(* The two validators on one decoded response (ValidatorsSpec)             *)
(***************************************************************************)
\* unnamed/part_007: ResultSchema.parse(rawResult) does not throw
StrictOnlyAccepts(raw) ==
    /\ raw.isObject
    /\ raw.alt_text.t = "str"
    /\ Len(raw.alt_text.s) >= 5
    /\ Len(raw.alt_text.s) <= 160
    /\ raw.title.t = "str"
    /\ Len(raw.title.s) >= 5
    /\ raw.keywords.t = "arr"
    /\ Len(raw.keywords.a) >= 5
    /\ Len(raw.keywords.a) <= 50

\* unnamed/part_007: the statements after the parse
StrictOnlyResult(raw) ==
    [alt_text |-> raw.alt_text,
     title |-> JString(IF Len(raw.title.s) > 70
                       THEN Trim(Substring0(raw.title.s, 70))
                       ELSE raw.title.s),
     keywords |-> JArray(Slice0(Dedupe(raw.keywords.a), 25))]

NoResult == [alt_text |-> JAbsent, title |-> JAbsent, keywords |-> JAbsent]

\* what a call leaves: it raised, or it returned res
Raised == [raised |-> TRUE, res |-> NoResult]

Gave(res) == [raised |-> FALSE, res |-> res]

\* unnamed/part_007: processResult(rawResult)
StrictOnlyProcessResult(raw) ==
    IF StrictOnlyAccepts(raw) THEN Gave(StrictOnlyResult(raw)) ELSE Raised

\* validation/resultSchema.ts: processResult(rawResult)
RepairingProcessResult(raw) ==
    IF ProcessResultRaises(raw) THEN Raised ELSE Gave(ProcessResult(raw))

\* objects as field values
ObjectValues == {JObject(TRUE), JObject(FALSE)}

\* decoded responses: null (or a primitive or an array: no field is
\* defined), and objects whose fields are missing, of the right type or of
\* a wrong type
DecodedValues ==
    {NullPayload} \cup
    {Payload(a, t, k, JAbsent, JAbsent) :
        a \in AltTexts \cup ObjectValues, t \in Titles \cup ObjectValues,
        k \in KeywordLists \cup {JObject(TRUE)}}

ValidatorsInit ==
    /\ cfg = DefaultCfg
    /\ PipelineInit
    /\ HarnessIdle
    /\ vm = [step |-> "idle"]
    /\ fac = [step |-> "idle"]
    /\ hl = [step |-> "idle"]
    /\ sib = [step |-> "idle"]
    /\ \E raw \in DecodedValues : pr = [step |-> "decoded", raw |-> raw]

\* both validators are applied to the decoded response
PrValidators ==
    /\ pr.step = "decoded"
    /\ pr' = [step |-> "validated", raw |-> pr.raw,
              strictOnly |-> StrictOnlyProcessResult(pr.raw),
              repairing |-> RepairingProcessResult(pr.raw)]
    /\ UNCHANGED <<pipelineVars, harnessVars, vm, fac, hl, sib>>

ValidatorsNext == PrValidators

ValidatorsSpec == ValidatorsInit /\ [][ValidatorsNext]_vars

\* C27: the repairing processResult returns a result for every decoded
\* value and never raises.
C27_RepairingNeverRaises ==
    pr.step = "validated" => ~pr.repairing.raised

\* C30: on a payload that meets the schema the two validators return the
\* same result; on any other the strict-only one raises and the repairing
\* one returns a result.
C30_ValidatorsAgree ==
    pr.step = "validated" =>
       IF SchemaAccepts(pr.raw)
       THEN /\ ~pr.strictOnly.raised
            /\ ~pr.repairing.raised
            /\ pr.strictOnly.res = pr.repairing.res
       ELSE /\ pr.strictOnly.raised
            /\ ~pr.repairing.raised

(***************************************************************************)
(* The custom adapter on one decoded response body (CustomSpec)            *)
(***************************************************************************)
MsgNullData == "Cannot read properties of null (reading 'alt_text')"

\* if (!data.alt_text || !data.title || !data.keywords)
ShapeCheckRejects(data) ==
    ~Truthy(data.alt_text) \/ ~Truthy(data.title) \/ ~Truthy(data.keywords)

\* makeRequest from `const data = await response.json()` on: the shape
\* check, then processResult
CustomHandle(data) ==
    IF ~data.isObject THEN [outcome |-> "type_error", msg |-> MsgNullData, res |-> NoResult]
    ELSE IF ShapeCheckRejects(data)
    THEN [outcome |-> "shape_error", msg |-> MsgShape, res |-> NoResult]
    ELSE IF ProcessResultRaises(data)
    THEN [outcome |-> "type_error", msg |-> "Cannot convert object to primitive value",
          res |-> NoResult]
    ELSE [outcome |-> "result", msg |-> "", res |-> ProcessResult(data)]

\* response bodies: null, and objects whose three fields are missing,
\* empty, zero or filled
CustomBodies ==
    {NullPayload} \cup
    {Payload(a, t, k, JAbsent, JAbsent) :
        a \in {JAbsent, JString(<<>>), JNumber(0), JString(<<"a", "b", "c">>),
               JString(Rep("a", 12))},
        t \in {JAbsent, JString(<<>>), JString(<<"H", "i">>), JString(Rep("t", 24))},
        k \in {JAbsent, JString(<<>>), JArray(<<>>), JArray(KwRange(2)),
               JArray(FiveWords)}}

CustomInit ==
    /\ cfg = [mode |-> "custom", retriesEnv |-> "unset", configOk |-> TRUE]
    /\ PipelineInit
    /\ HarnessIdle
    /\ vm = [step |-> "idle"]
    /\ fac = [step |-> "idle"]
    /\ hl = [step |-> "idle"]
    /\ sib = [step |-> "idle"]
    /\ \E data \in CustomBodies : pr = [step |-> "body", raw |-> data]

PrCustomHandle ==
    /\ pr.step = "body"
    /\ pr' = [step |-> "handled", raw |-> pr.raw, out |-> CustomHandle(pr.raw)]
    /\ UNCHANGED <<pipelineVars, harnessVars, vm, fac, hl, sib>>

CustomNext == PrCustomHandle

CustomSpec == CustomInit /\ [][CustomNext]_vars

Present(v) == v.t # "absent"

\* C21: an object response reaches processResult exactly when alt_text,
\* title and keywords are all present, whatever their values, and fails
\* with the shape error exactly when one of them is absent.
C21_ShapeCheckByPresence ==
    (pr.step = "handled" /\ pr.raw.isObject) =>
       LET all == /\ Present(pr.raw.alt_text)
                  /\ Present(pr.raw.title)
                  /\ Present(pr.raw.keywords)
       IN /\ (pr.out.outcome = "result") = all
          /\ (pr.out.outcome = "shape_error") = ~all

(***************************************************************************)
(* health() of the two adapters (HealthSpec)                               *)
(*                                                                         *)
(* hl.step is "ready" between calls, "fetching" while fetchWithTimeout is  *)
(* pending and "body" while the body is read; fetches and timeoutMs say    *)
(* how often and with which deadline the call in progress has called       *)
(* fetchWithTimeout; log lists the finished calls: what happened to the    *)
(* request (cause), how the call ended (returned or raised), its value and *)
(* its fetches and deadline.                                               *)
(***************************************************************************)
\* 5000 // 5 second timeout for health check
HealthTimeoutMs == 5000

MsgFetchFailed == "fetch failed"

MsgBodyRead == "terminated"

MsgNullBody == "Cannot read properties of null (reading 'data')"

\* what fetchWithTimeout can settle with: a response with a status, or a
\* rejection (the deadline elapsed, the transport failed)
FetchOutcomes ==
    {[kind |-> "response", status |-> st, error |-> None] : st \in {200, 404, 503}}
    \cup {[kind |-> "rejected", status |-> 0, error |-> NewError(MsgTimeout, 0)],
          [kind |-> "rejected", status |-> 0, error |-> NewError(MsgFetchFailed, 0)]}

\* response.ok
ResponseOk(status) == status >= 200 /\ status <= 299

\* what reading the body of a 2xx response can give: the read fails, the
\* text is not JSON, the JSON value null, an object without data, an object
\* with a list of models
Bodies == {"read_fails", "not_json", "null", "no_data", "three_models"}

HealthValue(ok, text, detail) == [ok |-> ok, info |-> <<text, detail>>]

\* the else branch: `Health check failed: ${response.status} ...`
HealthOnStatus(status) == HealthValue(FALSE, "Health check failed", Digits(status))

HealthCatchOk(error) == HealthValue(TRUE, "Health check error", <<>>)

\* the catch block: `Health check error: ${error.message}`
HealthCatch(error) ==
    HealthValue(FALSE, "Health check error",
                IF IsError(error) THEN error.msg ELSE String(error))

\* the if (response.ok) branch of the adapter of the given mode
HealthOnBody(mode, body) ==
    IF mode = "openai"
    THEN CASE body = "read_fails" -> HealthCatch(NewError(MsgBodyRead, 0))
           [] body = "not_json" -> HealthCatch(NewError(MsgSyntax, 0))
           [] body = "null" -> HealthCatch(NewError(MsgNullBody, 0))
           [] body = "no_data" ->
                 HealthValue(TRUE, "Connected to OpenAI-compatible endpoint", Digits(0))
           [] OTHER ->
                 HealthValue(TRUE, "Connected to OpenAI-compatible endpoint", Digits(3))
    ELSE IF body = "read_fails" THEN HealthCatch(NewError(MsgBodyRead, 0))
         ELSE HealthValue(TRUE, "Connected to custom backend", body)

HealthInit ==
    /\ cfg \in [mode : Modes, retriesEnv : {"unset"}, configOk : {TRUE}]
    /\ PipelineInit
    /\ HarnessIdle
    /\ pr = [step |-> "idle"]
    /\ vm = [step |-> "idle"]
    /\ fac = [step |-> "idle"]
    /\ sib = [step |-> "idle"]
    /\ hl = [step |-> "ready", fetches |-> 0, timeoutMs |-> 0, status |-> 0,
             log |-> <<>>]

HealthDone(why, value) ==
    [hl EXCEPT !.step = "ready", !.fetches = 0, !.timeoutMs = 0, !.status = 0,
               !.log = Append(@, [cause |-> why, ended |-> "returned",
                                  value |-> value, fetches |-> hl.fetches,
                                  timeoutMs |-> hl.timeoutMs])]

\* health() is called and calls fetchWithTimeout
HealthCall ==
    /\ hl.step = "ready"
    /\ Len(hl.log) < MaxAccesses
    /\ hl' = [hl EXCEPT !.step = "fetching", !.fetches = @ + 1,
                        !.timeoutMs = HealthTimeoutMs]
    /\ UNCHANGED <<pipelineVars, harnessVars, pr, vm, fac, sib>>

\* fetchWithTimeout settles
HealthFetched ==
    /\ hl.step = "fetching"
    /\ \E o \in FetchOutcomes :
          hl' = IF o.kind = "rejected"
                THEN HealthDone(o.error.msg, HealthCatch(o.error))
                ELSE IF ResponseOk(o.status)
                THEN [hl EXCEPT !.step = "body", !.status = o.status]
                ELSE HealthDone("status", HealthOnStatus(o.status))
    /\ UNCHANGED <<pipelineVars, harnessVars, pr, vm, fac, sib>>

\* response.json() / response.text() settles
HealthBodyRead ==
    /\ hl.step = "body"
    /\ \E body \in Bodies : hl' = HealthDone(body, HealthOnBody(cfg.mode, body))
    /\ UNCHANGED <<pipelineVars, harnessVars, pr, vm, fac, sib>>

HealthNext == HealthCall \/ HealthFetched \/ HealthBodyRead

HealthSpec == HealthInit /\ [][HealthNext]_vars

\* the causes that are failures of the check
HealthFailures == {MsgTimeout, MsgFetchFailed, "status", "read_fails"}

\* C22: every health() call has made one fetchWithTimeout call, with the
\* 5000 ms deadline, and has returned a value, with ok false when the
\* request timed out, failed, was answered non-2xx or had an unreadable body.
C22_HealthOneCallNoRaise ==
    /\ hl.step \in {"fetching", "body"} =>
          hl.fetches = 1 /\ hl.timeoutMs = 5000
    /\ hl.step \in {"ready", "fetching", "body"}
    /\ hl.step # "idle" =>
          \A i \in 1 .. Len(hl.log) :
             /\ hl.log[i].fetches = 1
             /\ hl.log[i].timeoutMs = 5000
             /\ hl.log[i].ended = "returned"
             /\ hl.log[i].value.ok \in BOOLEAN
             /\ hl.log[i].cause \in HealthFailures => ~hl.log[i].value.ok
             /\ (cfg.mode = "openai" /\ hl.log[i].cause = "not_json") =>
                   ~hl.log[i].value.ok

\* C22 witness: a call that timed out and returned ok false, then a call
\* that succeeded and returned ok true
C22_Witness ==
    /\ hl.step = "ready"
    /\ Len(hl.log) >= 2
    /\ hl.log[1].cause = MsgTimeout
    /\ ~hl.log[1].value.ok
    /\ hl.log[1].fetches = 1
    /\ hl.log[2].value.ok

(***************************************************************************)
(* One batch run twice (SiblingSpec)                                       *)
(*                                                                         *)
(* processImagesAsync as a function of what each image meets: the          *)
(* responses its attempts receive (script) and whether its update to       *)
(* processing, the read of its file, its update to completed and its       *)
(* update to error succeed.  The batch is run once with image x meeting k  *)
(* timeouts before a successful response and once with that response at    *)
(* the first attempt.                                                      *)
(***************************************************************************)
SibIds == 1 .. SibImages

Meets(script, okProcessing, fileOk, okCompleted, okError) ==
    [script |-> script, okProcessing |-> okProcessing, fileOk |-> fileOk,
     okCompleted |-> okCompleted, okError |-> okError]

\* the value the catch block binds for an image, or None when the image is
\* stored as completed
CaughtFor(inp) ==
    IF ~inp.okProcessing THEN NewError(MsgSqlite, 0)
    ELSE IF ~cfg.configOk THEN ConfigError
    ELSE IF ~inp.fileOk THEN NewError(MsgEnoent, 0)
    ELSE LET f == RunRetry(AnalyzeFrame, cfg.mode, inp.script)
         IN IF f.pc # "returned" THEN Caught(f.out)
            ELSE IF ValidateThrows(f.out) THEN NewError(MsgTrim, 0)
            ELSE IF ~inp.okCompleted THEN NewError(MsgSqlite, 0)
            ELSE None

\* one iteration of the for loop: the rows afterwards, and whether the loop
\* goes on to the next record
ProcessOne(rows, id, inp) ==
    LET r1 == IF inp.okProcessing THEN [rows EXCEPT ![id].status = "processing"]
              ELSE rows
        e == CaughtFor(inp)
    IN IF e = None
       THEN [rows |-> SetCompleted(r1, id, RunRetry(AnalyzeFrame, cfg.mode, inp.script).out),
             goOn |-> TRUE]
       ELSE IF inp.okError THEN [rows |-> SetError(r1, id, e), goOn |-> TRUE]
       ELSE [rows |-> r1, goOn |-> FALSE]

RECURSIVE RunFrom(_, _, _)
RunFrom(rows, id, inputs) ==
    IF id > Len(inputs) THEN rows
    ELSE LET o == ProcessOne(rows, id, inputs[id])
         IN IF o.goOn THEN RunFrom(o.rows, id + 1, inputs) ELSE o.rows

\* processImagesAsync(imageRecords) on freshly inserted rows
RunBatch(inputs) == RunFrom([i \in 1 .. Len(inputs) |-> PendingRow], 1, inputs)

Timeouts(k) == [i \in 1 .. k |-> "timeout"]

\* every attempt the retry count allows times out
ExhaustScript ==
    Timeouts(IF JsLeq(0, ParseRetries(cfg.retriesEnv))
             THEN ParseRetries(cfg.retriesEnv) + 1 ELSE 0)

\* what a sibling may meet: nothing goes wrong; one timeout first; every
\* attempt times out; its update to processing fails; its update to
\* completed fails; its call fails and the update to error fails as well
SiblingMeets ==
    {Meets(<<"valid">>, TRUE, TRUE, TRUE, TRUE),
     Meets(<<"timeout", "valid">>, TRUE, TRUE, TRUE, TRUE),
     Meets(ExhaustScript, TRUE, TRUE, TRUE, TRUE),
     Meets(<<"valid">>, FALSE, TRUE, TRUE, TRUE),
     Meets(<<"valid">>, TRUE, TRUE, FALSE, TRUE),
     Meets(<<"http_error">>, TRUE, FALSE, TRUE, FALSE)}

\* responses that are a success of the network call
SuccessResponses == {"valid", "missing_field", "nonstring_title"} \ 
                    (IF cfg.mode = "custom" THEN {"missing_field"} ELSE {})

SiblingInit ==
    /\ cfg \in [mode : Modes, retriesEnv : {"unset", "0", "-1"}, configOk : {TRUE}]
    /\ PipelineInit
    /\ HarnessIdle
    /\ pr = [step |-> "idle"]
    /\ vm = [step |-> "idle"]
    /\ fac = [step |-> "idle"]
    /\ hl = [step |-> "idle"]
    /\ \E x \in SibIds, k \in 0 .. DefaultRetries, succ \in SuccessResponses,
          others \in [SibIds -> SiblingMeets] :
          sib = [step |-> "in", x |-> x, k |-> k, succ |-> succ,
                 meets |-> [i \in SibIds |->
                              IF i = x THEN Meets(<<succ>>, TRUE, TRUE, TRUE, TRUE)
                              ELSE others[i]]]

\* the batch is run with the k timeouts of image x and without them
SibRun ==
    /\ sib.step = "in"
    /\ sib' = [step |-> "ran", x |-> sib.x, k |-> sib.k, succ |-> sib.succ,
               meets |-> sib.meets,
               plain |-> RunBatch(sib.meets),
               flaky |-> RunBatch([sib.meets EXCEPT ![sib.x].script =
                                      Timeouts(sib.k) \o <<sib.succ>>])]
    /\ UNCHANGED <<pipelineVars, harnessVars, pr, vm, fac, hl>>

SiblingNext == SibRun

SiblingSpec == SiblingInit /\ [][SiblingNext]_vars

\* C23: when image x is reached and its call times out k times, k within
\* the retry count, and then succeeds, x ends completed and every other
\* image ends with the row it has in the run without those timeouts.
C23_SiblingsUnaffected ==
    (/\ sib.step = "ran"
     /\ JsLeq(sib.k, ParseRetries(cfg.retriesEnv))
     /\ sib.flaky[sib.x].status # "pending") =>
       /\ sib.flaky[sib.x].status = "completed"
       /\ \A j \in SibIds : j # sib.x => sib.flaky[j] = sib.plain[j]

====
